---- MODULE Spec2Model ----
(***************************************************************************)
(* Model of the multi-source resolution engine of TikTokDownloader         *)
(* (src/unnamed/part_000): downloadVideo / getVideoMetadata with its       *)
(* result cache, the fan-out over the provider adapters, the arbitration   *)
(* by selectBestQuality and the statistics object.                         *)
(*                                                                         *)
(* JavaScript runs one task at a time, so every action below is one        *)
(* synchronous run of code between two suspension points (await).          *)
(***************************************************************************)
EXTENDS Integers, Sequences, FiniteSets, TLC

VARIABLES options, concurrency, now, cache, stats, calls, started, lastPut, input, results, winners, fetch, shape, snapshot, unit

vars == <<options, concurrency, now, cache, stats, calls, started, lastPut, input, results, winners, fetch, shape, snapshot, unit>>

engineVars == <<concurrency, shape, now, cache, stats, calls, started, lastPut, snapshot>>

arbiterVars == <<input, results, winners>>

(***************************************************************************)
(* Bounds of the model.                                                    *)
(***************************************************************************)
\* number of downloadVideo calls issued in one behaviour
MaxCalls == 2

\* number of downloadVideo calls that may be in flight at the same time
MaxInFlight == 2

\* last instant of the clock Date.now()
MaxTime == 3

\* options.maxCacheAge in clock ticks (the default is 3600000 ms)
MaxCacheAge == 2

\* longest candidate list given to selectBestQuality on its own
MaxLen == 3

\* number of selectBestQuality invocations on one array
MaxSelects == 2

\* largest options.maxRetries given to the constructor
MaxRetries == 4

\* largest options.parallelDownloads given to the constructor
MaxParallel == 2

(***************************************************************************)
(* Values of JavaScript that a counter can take besides a number.          *)
(***************************************************************************)
Undefined == -1

NaN == -2

\* x++ on a number, on undefined and on NaN
Inc(x) == IF x >= 0 THEN x + 1 ELSE NaN

(***************************************************************************)
(* Constant tables of the class.                                           *)
(***************************************************************************)
\* keys of this.apis, which are the keys of stats.apiUsage
ApiNames == {"snaptik", "tikwm", "tikmate", "savett", "tikdown", "tiktokapi", "dlpanda", "ssstik"}

\* names of the fan-out list, in its order
apiMethods == <<"snaptik", "tikwm", "tikdown", "savett", "ssstik", "dlpanda", "webscraping">>

MethodNames == {apiMethods[i] : i \in 1..Len(apiMethods)}

sourceOrder == <<"snaptik", "tikwm", "tikdown", "savett", "webscraping">>

Qualities == {"high", "medium", "low"}

qualityMap == [q \in Qualities |-> CASE q = "high" -> 3 [] q = "medium" -> 2 [] q = "low" -> 1]

\* quality tag each adapter puts on its candidate
AdapterQuality(name) == IF name = "webscraping" THEN "medium" ELSE "high"

\* references given to downloadVideo
Urls == {"r1"}

\* generateCacheKey: the MD5 digest of the reference, in hex
generateCacheKey(url) == CASE url = "r1" -> "md5_r1"

CacheKeys == {generateCacheKey(u) : u \in Urls}

(***************************************************************************)
(* Candidates.  videoUrl 0 stands for a missing (undefined) videoUrl.      *)
(***************************************************************************)
NoResult == [videoUrl |-> 0, author |-> "", desc |-> "", quality |-> "", source |-> ""]

NoMedia == [url |-> 0, author |-> "", description |-> "", quality |-> "", source |-> ""]

\* what the provider behind an adapter does for one call
Outcomes == {"candidate", "nourl", "absent", "error", "hang"}

\* what an adapter makes of its provider's behaviour: dlpanda tests
\* response.data.url itself, so a response without the URL is an absence
\* for it; the other adapters test only the enclosing object
AdapterOutcome(name, behaviour) ==
    IF name = "dlpanda" /\ behaviour = "nourl" THEN "absent" ELSE behaviour

\* the object an adapter returns when its provider delivers; the media URL
\* of a provider differs from one request to the next (tag: the call number)
AdapterCandidate(name, outcome, tag) ==
    [videoUrl |-> IF outcome = "candidate" THEN tag ELSE 0,
     author |-> "author", desc |-> "desc",
     quality |-> AdapterQuality(name), source |-> name]

(***************************************************************************)
(* selectBestQuality.  Array.prototype.sort is a stable sort; the          *)
(* comparator of the code is a lexicographic order on (quality, position   *)
(* in sourceOrder), so the sorted array is the one a stable insertion sort *)
(* with that comparator produces.                                          *)
(***************************************************************************)
\* Array.prototype.indexOf: 0-based position of the first match, or -1
indexOf(arr, x) ==
    IF \E i \in 1..Len(arr) : arr[i] = x
    THEN (CHOOSE i \in 1..Len(arr) : arr[i] = x /\ \A j \in 1..(i - 1) : arr[j] # x) - 1
    ELSE -1

\* compareFn with the tie-break taken the other way round
compareFn_reversedSources(a, b) ==
    IF qualityMap[b.quality] # qualityMap[a.quality]
    THEN qualityMap[b.quality] - qualityMap[a.quality]
    ELSE indexOf(sourceOrder, b.source) - indexOf(sourceOrder, a.source)

\* compareFn with the quality tiers in ascending order
compareFn_ascendingQuality(a, b) ==
    IF qualityMap[b.quality] # qualityMap[a.quality]
    THEN qualityMap[a.quality] - qualityMap[b.quality]
    ELSE indexOf(sourceOrder, a.source) - indexOf(sourceOrder, b.source)

\* the comparator handed to results.sort
compareFn(a, b) ==
    IF qualityMap[b.quality] # qualityMap[a.quality]
    THEN qualityMap[b.quality] - qualityMap[a.quality]
    ELSE indexOf(sourceOrder, a.source) - indexOf(sourceOrder, b.source)

RECURSIVE insertSorted_beforeEquals(_, _)
\* insertSorted of a sort that is not stable: x goes in front of its equals
insertSorted_beforeEquals(x, arr) ==
    IF arr = <<>> THEN <<x>>
    ELSE IF compareFn(Head(arr), x) < 0
         THEN <<Head(arr)>> \o insertSorted_beforeEquals(x, Tail(arr))
         ELSE <<x>> \o arr

RECURSIVE insertSorted(_, _)
\* x goes behind every element that does not have to come after it
insertSorted(x, arr) ==
    IF arr = <<>> THEN <<x>>
    ELSE IF compareFn(Head(arr), x) <= 0
         THEN <<Head(arr)>> \o insertSorted(x, Tail(arr))
         ELSE <<x>> \o arr

RECURSIVE sortResults(_)
sortResults(arr) ==
    IF arr = <<>> THEN <<>>
    ELSE insertSorted(arr[Len(arr)], sortResults(SubSeq(arr, 1, Len(arr) - 1)))

\* findPreferred that takes the last match instead of the first
findPreferred_last(arr, preferredQuality, selected) ==
    IF \E i \in 1..Len(arr) : arr[i].quality = preferredQuality
    THEN arr[CHOOSE i \in 1..Len(arr) :
                /\ arr[i].quality = preferredQuality
                /\ \A j \in (i + 1)..Len(arr) : arr[j].quality # preferredQuality]
    ELSE selected

\* results.find(r => r.quality === preferredQuality) || selected
findPreferred(arr, preferredQuality, selected) ==
    IF \E i \in 1..Len(arr) : arr[i].quality = preferredQuality
    THEN arr[CHOOSE i \in 1..Len(arr) :
                /\ arr[i].quality = preferredQuality
                /\ \A j \in 1..(i - 1) : arr[j].quality # preferredQuality]
    ELSE selected

\* the array as the in-place sort leaves it, and the candidate returned
selectBestQuality(arr, preferredQuality) ==
    LET sorted == sortResults(arr)
    IN  [array |-> sorted,
         selected |-> IF preferredQuality # "high"
                      THEN findPreferred(sorted, preferredQuality, sorted[1])
                      ELSE sorted[1]]

(***************************************************************************)
(* State of the engine.                                                    *)
(***************************************************************************)
\* maxRetries: options.maxRetries || 3
DefaultMaxRetries == 3

\* parallelDownloads: options.parallelDownloads || 3
DefaultParallelDownloads == 3

parallelDownloadsOption(given) == IF given = 0 THEN DefaultParallelDownloads ELSE given

\* one fetchWithRetry call: the loop variable i, lastError, the axios
\* requests made (attempts, with the error each one failed with in
\* failures), the delays slept (sleeps, in ms) and how the call ended
IdleFetch ==
    [pc |-> "idle", retries |-> 0, i |-> 0, lastError |-> "null",
     attempts |-> 0, failures |-> <<>>, sleeps |-> <<>>, thrown |-> "null"]

\* One unit of the fan-out with the time its events take, in ms since the
\* launch: pc is "idle", "racing" (the await of Promise.race) or
\* "settled"; outcome is what the unit ended with ("fulfilled" with the
\* candidate, "null" without one, "timeout"), at settledAt; adapter is
\* what the adapter function returned ("none" while it runs); timer tells
\* whether the timer of the race has fired; clock is the time of the
\* latest event and since the time the pending request or sleep began.
IdleUnit ==
    [pc |-> "idle", outcome |-> "none", settledAt |-> -1, adapter |-> "none",
     timer |-> "none", clock |-> 0, since |-> 0, errors |-> <<>>]

Slots == 1..MaxInFlight

\* this.stats as the constructor builds it; hasApiUsage and hasErrors tell
\* whether the properties apiUsage and errors exist on the object
InitStats ==
    [totalDownloads |-> 0, successfulDownloads |-> 0, failedDownloads |-> 0,
     cacheSaves |-> 0,
     hasApiUsage |-> TRUE,
     apiUsage |-> [n \in ApiNames |-> [calls |-> 0, successes |-> 0, failures |-> 0]],
     hasErrors |-> TRUE,
     errors |-> <<>>]

\* this.stats as resetStats builds it: four counters and nothing else
ResetStatsObject ==
    [totalDownloads |-> 0, successfulDownloads |-> 0, failedDownloads |-> 0,
     cacheSaves |-> Undefined,
     hasApiUsage |-> FALSE,
     apiUsage |-> [n \in ApiNames |-> [calls |-> 0, successes |-> 0, failures |-> 0]],
     hasErrors |-> FALSE,
     errors |-> <<>>]

NoEntry == [present |-> FALSE, timestamp |-> 0, data |-> NoResult]

\* a JavaScript number that is the quotient of two counters times 100
Number(num, den) == [kind |-> "number", num |-> 100 * num, den |-> den]

NotANumber == [kind |-> "NaN", num |-> 0, den |-> 0]

Infinity == [kind |-> "Infinity", num |-> 0, den |-> 0]

\* a percentage that answers 0 when nothing has been counted yet
Percentage_zeroWhenEmpty(num, den) ==
    IF num < 0 \/ den < 0 THEN NotANumber
    ELSE IF den = 0 THEN Number(0, 1)
    ELSE Number(num, den)

\* (num / den) * 100 in IEEE arithmetic: undefined and NaN give NaN, 0/0
\* gives NaN, n/0 gives Infinity
Percentage(num, den) ==
    IF num < 0 \/ den < 0 THEN NotANumber
    ELSE IF den = 0 THEN (IF num = 0 THEN NotANumber ELSE Infinity)
    ELSE Number(num, den)

\* arr.slice(-5)
LastErrors(arr) ==
    IF Len(arr) <= 5 THEN arr ELSE SubSeq(arr, Len(arr) - 4, Len(arr))

\* What the latest getStats or getDetailedStats call handed to its caller,
\* until the engine takes its next step: the properties spread from
\* this.stats and the computed ones.  threw tells that the call raised a
\* TypeError instead of returning.
NoSnapshot ==
    [op |-> "none", threw |-> FALSE, stats |-> InitStats,
     successRate |-> NotANumber, cacheEfficiency |-> NotANumber, lastErrors |-> <<>>]

\* What a reference looks like to getVideoId: "video" matches one of the
\* patterns (a /video/<digits> or /v/<digits> path, or a vm./vt.tiktok.com
\* link followed by a code); "redirect" matches none but names the host
\* vm.tiktok.com or vt.tiktok.com; "other" is anything else.
Shapes == {"video", "redirect", "other"}

\* how the HEAD request of getVideoId ends: at a URL of shape "video", at
\* a URL of shape "other", or with an error
Redirects == {"video", "other", "fails"}

\* getVideoId: the id matched ("id") or null
getVideoId(sh, redirect) ==
    CASE sh = "video" -> "id"
      [] sh = "redirect" -> IF redirect = "video" THEN "id" ELSE "null"
      [] sh = "other" -> "null"

\* the providers whose behaviour varies on its own within one call; the
\* other providers of the list behave alike within one call
Varied == {"snaptik"}

\* the providers that behave as name does
Group(name) == IF name \in Varied THEN {name} ELSE MethodNames \ Varied

IdleCall ==
    [pc |-> "idle", url |-> "", ord |-> 0, hit |-> FALSE,
     earlier |-> NoMedia, ageAtStart |-> -1, videoId |-> "none",
     before |-> [calls |-> 0, successes |-> 0],
     scenario |-> [n \in MethodNames |-> "none"],
     units |-> [n \in MethodNames |-> "none"],
     values |-> [n \in MethodNames |-> NoResult],
     invoked |-> {},
     errors |-> <<>>,
     metadata |-> NoResult, metaThrown |-> "",
     thrown |-> "", result |-> NoMedia,
     events |-> <<>>]

InFlight(c) == calls[c].pc \notin {"idle", "done"}

RECURSIVE SumOver(_, _, _)
SumOver(usage, names, field) ==
    IF names = {} THEN 0
    ELSE LET n == CHOOSE m \in names : TRUE
         IN  usage[n][field] + SumOver(usage, names \ {n}, field)

\* a counter of stats.apiUsage summed over the providers (0 if the object
\* has no apiUsage); the call record keeps the totals at launch (before),
\* which no action of the program reads
Total(st, field) == IF st.hasApiUsage THEN SumOver(st.apiUsage, ApiNames, field) ELSE 0

\* History, read by no action of the program: for every key, when the
\* latest Put was made, by which downloadVideo call, and what that call
\* returned to its caller (NoMedia until it returns, and if it throws).
NeverPut == [at |-> -1, by |-> 0, returned |-> NoMedia]

\* The state after construction.  The caller of Spec issues its
\* downloadVideo calls one after the other (concurrency = 1); every
\* candidate a fan-out can collect is of tier high (webscraping, the one
\* medium adapter, never runs), so preferredQuality has no effect on the
\* engine and is left at its default here; SpecSelect varies it.
Init ==
    /\ options \in [cacheResults : BOOLEAN, preferredQuality : {"high"},
                   maxRetries : {DefaultMaxRetries},
                   parallelDownloads : {DefaultParallelDownloads}]
    /\ concurrency = 1
    /\ shape = [u \in Urls |-> "video"]
    /\ now = 0
    /\ cache = [k \in CacheKeys |-> NoEntry]
    /\ stats = InitStats
    /\ calls = [c \in Slots |-> IdleCall]
    /\ started = 0
    /\ snapshot = NoSnapshot
    /\ lastPut = [k \in CacheKeys |-> NeverPut]
    /\ input = <<>>
    /\ results = <<>>
    /\ winners = <<>>
    /\ fetch = IdleFetch
    /\ unit = IdleUnit

(***************************************************************************)
(* Event handlers registered by initializeEventHandlers.                   *)
(***************************************************************************)
\* this.on('error', ...): the listener reads error.message of the emitted
\* object {error, url}, which has no such property.  ok is FALSE when the
\* listener throws a TypeError (stats.errors does not exist).  The entry's
\* timestamp, which nothing reads, is left out.
onError(st, url) ==
    IF st.hasErrors
    THEN [ok |-> TRUE,
          stats |-> [st EXCEPT !.errors =
                        Append(@, [error |-> "undefined", url |-> url])]]
    ELSE [ok |-> FALSE, stats |-> st]

\* this.on('success', ...)
onSuccess(st, info) ==
    IF ~st.hasApiUsage
    THEN [ok |-> FALSE, stats |-> st]
    ELSE IF info.source \in ApiNames
         THEN [ok |-> TRUE,
               stats |-> [st EXCEPT !.apiUsage[info.source].successes = @ + 1]]
         ELSE [ok |-> TRUE, stats |-> st]

(***************************************************************************)
(* downloadVideo up to its await of getVideoMetadata, and getVideoMetadata *)
(* up to its first await: the cache lookup.                                *)
(***************************************************************************)
\* cacheHit that still serves an entry whose age equals maxCacheAge
cacheHit_inclusive(url) ==
    LET cached == cache[generateCacheKey(url)]
    IN  /\ options.cacheResults
        /\ cached.present
        /\ now - cached.timestamp <= MaxCacheAge

cacheHit(url) ==
    LET cached == cache[generateCacheKey(url)]
    IN  /\ options.cacheResults
        /\ cached.present
        /\ now - cached.timestamp < MaxCacheAge

downloadVideo(c, url) ==
    /\ started < MaxCalls
    /\ ~InFlight(c)
    /\ \A d \in Slots : d < c => InFlight(d)
    /\ Cardinality({d \in Slots : InFlight(d)}) < concurrency
    /\ started' = started + 1
    /\ LET st1 == [stats EXCEPT !.totalDownloads = Inc(@)]
           put == lastPut[generateCacheKey(url)]
           base == [IdleCall EXCEPT
                       !.url = url, !.ord = started + 1,
                       !.events = <<"start">>,
                       !.ageAtStart = IF put.at < 0 THEN -1 ELSE now - put.at,
                       !.earlier = IF options.cacheResults /\ put.at >= 0
                                      /\ now - put.at < MaxCacheAge
                                   THEN put.returned ELSE NoMedia]
       IN  IF cacheHit(url)
           THEN /\ stats' = [st1 EXCEPT !.cacheSaves = Inc(@)]
                /\ calls' = [calls EXCEPT ![c] =
                                [base EXCEPT !.pc = "awaitMeta", !.hit = TRUE,
                                             !.metadata = cache[generateCacheKey(url)].data]]
           ELSE /\ stats' = st1
                /\ calls' = [calls EXCEPT ![c] = [base EXCEPT !.pc = "getId"]]
    /\ snapshot' = NoSnapshot
    /\ UNCHANGED <<options, concurrency, shape, now, cache, lastPut, arbiterVars, fetch, unit>>

(***************************************************************************)
(* getVideoMetadata from the return of getVideoId to the await of          *)
(* Promise.allSettled: every unit runs up to its await of Promise.race.    *)
(***************************************************************************)
\* a unit can count its call only if stats.apiUsage[name] exists
unitCanCount(st, name) == st.hasApiUsage /\ name \in ApiNames

launchFanout(c, redirect) ==
    /\ calls[c].pc = "getId"
    /\ calls' = [calls EXCEPT ![c] =
            [@ EXCEPT !.pc = "fanout",
                      !.videoId = getVideoId(shape[calls[c].url], redirect),
                      !.before = [calls |-> Total(stats, "calls"),
                                  successes |-> Total(stats, "successes")],
                      !.events = Append(@, "progress"),
                      !.units = [n \in MethodNames |->
                                    IF unitCanCount(stats, n) THEN "pending" ELSE "rejected"],
                      !.invoked = {n \in MethodNames : unitCanCount(stats, n)}]]
    /\ stats' = IF stats.hasApiUsage
                THEN [stats EXCEPT !.apiUsage =
                        [n \in ApiNames |->
                            IF n \in MethodNames
                            THEN [@[n] EXCEPT !.calls = @ + 1]
                            ELSE @[n]]]
                ELSE stats
    /\ snapshot' = NoSnapshot
    /\ UNCHANGED <<options, concurrency, shape, now, cache, started, lastPut, arbiterVars, fetch, unit>>

(***************************************************************************)
(* One unit of the fan-out after its Promise.race has settled.  The        *)
(* provider's behaviour for this call (outcome) is the environment's       *)
(* choice.  The units are taken in the order of the list; what they do to  *)
(* stats commutes, and the timers of the list fire in this order.          *)
(***************************************************************************)
settleUnit(c, name, behaviour) ==
    /\ calls[c].pc = "fanout"
    /\ calls[c].units[name] = "pending"
    /\ \A i, j \in 1..Len(apiMethods) :
          i < j /\ apiMethods[j] = name => calls[c].units[apiMethods[i]] # "pending"
    /\ calls[c].scenario[name] \in {"none", behaviour}
    /\ LET outcome == AdapterOutcome(name, behaviour)
           seen == [calls EXCEPT ![c].scenario =
                        [n \in MethodNames |-> IF n \in Group(name) THEN behaviour ELSE @[n]]]
       IN  CASE outcome \in {"candidate", "nourl"} ->
                  IF stats.hasApiUsage
                  THEN /\ stats' = [stats EXCEPT !.apiUsage[name].successes = @ + 1]
                       /\ calls' = [seen EXCEPT ![c].units[name] = "fulfilled",
                                                 ![c].values[name] =
                                                    AdapterCandidate(name, outcome, calls[c].ord)]
                  ELSE /\ stats' = stats
                       /\ calls' = [seen EXCEPT ![c].units[name] = "rejected"]
             [] outcome \in {"absent", "error"} ->
                  /\ stats' = stats
                  /\ calls' = [seen EXCEPT ![c].units[name] = "null"]
             [] outcome = "hang" ->
                  IF stats.hasApiUsage
                  THEN /\ stats' = [stats EXCEPT !.apiUsage[name].failures = @ + 1]
                       /\ calls' = [seen EXCEPT ![c].units[name] = "timeout",
                                                 ![c].errors = Append(@, <<name, "Timeout">>)]
                  ELSE /\ stats' = stats
                       /\ calls' = [seen EXCEPT ![c].units[name] = "rejected"]
    /\ snapshot' = NoSnapshot
    /\ UNCHANGED <<options, concurrency, shape, now, cache, started, lastPut, arbiterVars, fetch, unit>>

(***************************************************************************)
(* getVideoMetadata after Promise.allSettled: filter, arbitration, Put.    *)
(***************************************************************************)
\* results.filter(fulfilled with a value).map(value), in the list's order
successfulResults(call) ==
    LET idx == SelectSeq([i \in 1..Len(apiMethods) |-> i],
                         LAMBDA i : call.units[apiMethods[i]] = "fulfilled")
    IN  [j \in 1..Len(idx) |-> call.values[apiMethods[idx[j]]]]

\* a Put that does not look at options.cacheResults
cachePut_always(url, bestResult) ==
    [cache EXCEPT ![generateCacheKey(url)] =
        [present |-> TRUE, timestamp |-> now, data |-> bestResult]]

\* a Put that refreshes the data of an entry and keeps its timestamp
cachePut_merge(url, bestResult) ==
    LET old == cache[generateCacheKey(url)]
    IN  IF options.cacheResults
        THEN [cache EXCEPT ![generateCacheKey(url)] =
                [present |-> TRUE,
                 timestamp |-> IF old.present THEN old.timestamp ELSE now,
                 data |-> bestResult]]
        ELSE cache

\* if (this.options.cacheResults) this.cache.set(cacheKey, {data, timestamp})
cachePut(url, bestResult) ==
    IF options.cacheResults
    THEN [cache EXCEPT ![generateCacheKey(url)] =
            [present |-> TRUE, timestamp |-> now, data |-> bestResult]]
    ELSE cache

\* a combinator that resumes as soon as one unit has a value (Promise.any)
allSettled_firstFulfilled(call) ==
    \/ \E n \in MethodNames : call.units[n] = "fulfilled"
    \/ \A n \in MethodNames : call.units[n] # "pending"

\* await Promise.allSettled(...) resumes when no unit is pending
allSettled(call) == \A n \in MethodNames : call.units[n] # "pending"

arbitrate(c) ==
    /\ calls[c].pc = "fanout"
    /\ allSettled(calls[c])
    /\ LET found == successfulResults(calls[c])
       IN  IF Len(found) = 0
           THEN /\ calls' = [calls EXCEPT ![c].pc = "awaitMeta",
                                          ![c].metaThrown = "AllMethodsFailed"]
                /\ cache' = cache
                /\ lastPut' = lastPut
           ELSE LET bestResult == selectBestQuality(found, options.preferredQuality).selected
                IN  /\ calls' = [calls EXCEPT ![c].pc = "awaitMeta",
                                              ![c].metadata = bestResult]
                    /\ cache' = cachePut(calls[c].url, bestResult)
                    /\ lastPut' = IF options.cacheResults
                                  THEN [lastPut EXCEPT ![generateCacheKey(calls[c].url)] =
                                          [at |-> now, by |-> calls[c].ord, returned |-> NoMedia]]
                                  ELSE lastPut
    /\ snapshot' = NoSnapshot
    /\ UNCHANGED <<options, concurrency, shape, now, stats, started, arbiterVars, fetch, unit>>

(***************************************************************************)
(* downloadVideo after its await of getVideoMetadata.                      *)
(***************************************************************************)
\* the catch block: failedDownloads++, emit('error'), throw error
catchBlock(c, st, events, error) ==
    LET st1 == [st EXCEPT !.failedDownloads = Inc(@)]
        h == onError(st1, calls[c].url)
    IN  /\ stats' = h.stats
        /\ calls' = [calls EXCEPT ![c].pc = "done",
                                  ![c].events = Append(events, "error"),
                                  ![c].thrown = IF h.ok THEN error ELSE "TypeError"]

finishDownload(c) ==
    /\ calls[c].pc = "awaitMeta"
    /\ LET call == calls[c]
           metadata == call.metadata
       IN  IF call.metaThrown # ""
           THEN catchBlock(c, stats, call.events, call.metaThrown)
           ELSE IF metadata.videoUrl = 0
           THEN catchBlock(c, stats, call.events, "CouldNotGetVideoUrl")
           ELSE LET st1 == [stats EXCEPT !.successfulDownloads = Inc(@)]
                    h == onSuccess(st1, metadata)
                IN  IF h.ok
                    THEN /\ stats' = h.stats
                         /\ calls' = [calls EXCEPT
                                ![c].pc = "done",
                                ![c].events = Append(@, "success"),
                                ![c].result = [url |-> metadata.videoUrl,
                                               author |-> metadata.author,
                                               description |-> metadata.desc,
                                               quality |-> metadata.quality,
                                               source |-> metadata.source]]
                    ELSE catchBlock(c, st1, Append(call.events, "success"), "TypeError")
    /\ lastPut' = LET k == generateCacheKey(calls[c].url)
                  IN  IF calls'[c].thrown = "" /\ lastPut[k].by = calls[c].ord
                      THEN [lastPut EXCEPT ![k].returned = calls'[c].result]
                      ELSE lastPut
    /\ snapshot' = NoSnapshot
    /\ UNCHANGED <<options, concurrency, shape, now, cache, started, arbiterVars, fetch, unit>>

(***************************************************************************)
(* The other operations.                                                   *)
(***************************************************************************)
\* the interval timer of the constructor fires no earlier than one period
\* the test of cleanCache with the comparison the other way round
sweepable_younger(entry) == now - entry.timestamp < MaxCacheAge

\* if (now - value.timestamp > this.options.maxCacheAge)
sweepable(entry) == now - entry.timestamp > MaxCacheAge

cleanCache ==
    /\ now >= MaxCacheAge
    /\ cache' = [k \in CacheKeys |->
                    IF cache[k].present /\ sweepable(cache[k])
                    THEN NoEntry ELSE cache[k]]
    /\ snapshot' = NoSnapshot
    /\ UNCHANGED <<options, concurrency, shape, now, stats, calls, started, lastPut, arbiterVars, fetch, unit>>

resetStats ==
    /\ stats' = ResetStatsObject
    /\ snapshot' = NoSnapshot
    /\ UNCHANGED <<options, concurrency, shape, now, cache, calls, started, lastPut, arbiterVars, fetch, unit>>

getStats ==
    /\ snapshot' = [op |-> "getStats", threw |-> FALSE, stats |-> stats,
                    successRate |-> Percentage(stats.successfulDownloads,
                                               stats.totalDownloads),
                    cacheEfficiency |-> NotANumber, lastErrors |-> <<>>]
    /\ UNCHANGED <<options, concurrency, shape, now, cache, stats, calls, started, lastPut,
                   arbiterVars, fetch, unit>>

\* this.stats.errors.slice(-5) raises a TypeError when stats has no errors
getDetailedStats ==
    /\ snapshot' = IF stats.hasErrors
                   THEN [op |-> "getDetailedStats", threw |-> FALSE, stats |-> stats,
                         successRate |-> Percentage(stats.successfulDownloads,
                                                    stats.totalDownloads),
                         cacheEfficiency |-> Percentage(stats.cacheSaves,
                                                        stats.totalDownloads),
                         lastErrors |-> LastErrors(stats.errors)]
                   ELSE [NoSnapshot EXCEPT !.op = "getDetailedStats", !.threw = TRUE]
    /\ UNCHANGED <<options, concurrency, shape, now, cache, stats, calls, started, lastPut,
                   arbiterVars, fetch, unit>>

\* Date.now() advances
Tick ==
    /\ now < MaxTime
    /\ now' = now + 1
    /\ snapshot' = NoSnapshot
    /\ UNCHANGED <<options, concurrency, shape, cache, stats, calls, started, lastPut, arbiterVars, fetch, unit>>

Next ==
    \/ \E c \in Slots, url \in Urls : downloadVideo(c, url)
    \/ \E c \in Slots, redirect \in Redirects : launchFanout(c, redirect)
    \/ \E c \in Slots, n \in MethodNames, o \in Outcomes : settleUnit(c, n, o)
    \/ \E c \in Slots : arbitrate(c)
    \/ \E c \in Slots : finishDownload(c)
    \/ cleanCache
    \/ resetStats
    \/ Tick

Spec == Init /\ [][Next]_vars

\* no downloadVideo call is in flight
Quiescent == \A c \in Slots : ~InFlight(c)

\* The engine with a caller that also takes snapshots of the statistics,
\* between its downloadVideo calls (it awaits each of them).
NextStats ==
    \/ Next
    \/ Quiescent /\ getStats
    \/ Quiescent /\ getDetailedStats

SpecStats == Init /\ [][NextStats]_vars

\* The engine given a reference of any shape.
InitRef ==
    /\ options \in [cacheResults : BOOLEAN, preferredQuality : {"high"},
                   maxRetries : {DefaultMaxRetries},
                   parallelDownloads : {DefaultParallelDownloads}]
    /\ concurrency = 1
    /\ shape \in [Urls -> Shapes]
    /\ now = 0
    /\ cache = [k \in CacheKeys |-> NoEntry]
    /\ stats = InitStats
    /\ calls = [c \in Slots |-> IdleCall]
    /\ started = 0
    /\ snapshot = NoSnapshot
    /\ lastPut = [k \in CacheKeys |-> NeverPut]
    /\ input = <<>>
    /\ results = <<>>
    /\ winners = <<>>
    /\ fetch = IdleFetch
    /\ unit = IdleUnit

SpecRef == InitRef /\ [][Next]_vars

\* The engine constructed with any options.parallelDownloads up to
\* MaxParallel (0 stands for an option that is not given).
InitPar ==
    /\ \E given \in 0..MaxParallel :
          options = [cacheResults |-> TRUE, preferredQuality |-> "high",
                     maxRetries |-> DefaultMaxRetries,
                     parallelDownloads |-> parallelDownloadsOption(given)]
    /\ concurrency = 1
    /\ shape = [u \in Urls |-> "video"]
    /\ now = 0
    /\ cache = [k \in CacheKeys |-> NoEntry]
    /\ stats = InitStats
    /\ calls = [c \in Slots |-> IdleCall]
    /\ started = 0
    /\ snapshot = NoSnapshot
    /\ lastPut = [k \in CacheKeys |-> NeverPut]
    /\ input = <<>>
    /\ results = <<>>
    /\ winners = <<>>
    /\ fetch = IdleFetch
    /\ unit = IdleUnit

SpecPar == InitPar /\ [][Next]_vars

\* The engine with a caller that does not await its downloadVideo calls
\* (Promise.all(urls.map(url => downloader.downloadVideo(url)))): up to
\* MaxInFlight calls are in flight together, and the steps of their units
\* interleave freely.  The cache is off, so every call runs its fan-out.
InitConc ==
    /\ options = [cacheResults |-> FALSE, preferredQuality |-> "high",
                  maxRetries |-> DefaultMaxRetries,
                  parallelDownloads |-> DefaultParallelDownloads]
    /\ concurrency = MaxInFlight
    /\ shape = [u \in Urls |-> "video"]
    /\ now = 0
    /\ cache = [k \in CacheKeys |-> NoEntry]
    /\ stats = InitStats
    /\ calls = [c \in Slots |-> IdleCall]
    /\ started = 0
    /\ snapshot = NoSnapshot
    /\ lastPut = [k \in CacheKeys |-> NeverPut]
    /\ input = <<>>
    /\ results = <<>>
    /\ winners = <<>>
    /\ fetch = IdleFetch
    /\ unit = IdleUnit

\* the steps of downloadVideo calls alone
NextConc ==
    \/ \E c \in Slots, url \in Urls : downloadVideo(c, url)
    \/ \E c \in Slots, redirect \in Redirects : launchFanout(c, redirect)
    \/ \E c \in Slots, n \in MethodNames, o \in Outcomes : settleUnit(c, n, o)
    \/ \E c \in Slots : arbitrate(c)
    \/ \E c \in Slots : finishDownload(c)

SpecConc == InitConc /\ [][NextConc]_vars

\* The same caller with the cache on, while time passes and the interval
\* timer of the constructor runs cleanCache between any two steps.
InitCache ==
    /\ options = [cacheResults |-> TRUE, preferredQuality |-> "high",
                  maxRetries |-> DefaultMaxRetries,
                  parallelDownloads |-> DefaultParallelDownloads]
    /\ concurrency = MaxInFlight
    /\ shape = [u \in Urls |-> "video"]
    /\ now = 0
    /\ cache = [k \in CacheKeys |-> NoEntry]
    /\ stats = InitStats
    /\ calls = [c \in Slots |-> IdleCall]
    /\ started = 0
    /\ snapshot = NoSnapshot
    /\ lastPut = [k \in CacheKeys |-> NeverPut]
    /\ input = <<>>
    /\ results = <<>>
    /\ winners = <<>>
    /\ fetch = IdleFetch
    /\ unit = IdleUnit

\* what a provider does in SpecCache: it answers with a video URL, without
\* one, or with no video at all (errors and timeouts add nothing to what
\* reaches the cache: like absence they leave the unit without a value)
CacheOutcomes == {"candidate", "nourl", "absent"}

NextCache ==
    \/ \E c \in Slots, url \in Urls : downloadVideo(c, url)
    \/ \E c \in Slots, redirect \in Redirects : launchFanout(c, redirect)
    \/ \E c \in Slots, n \in MethodNames, o \in CacheOutcomes : settleUnit(c, n, o)
    \/ \E c \in Slots : arbitrate(c)
    \/ \E c \in Slots : finishDownload(c)
    \/ cleanCache
    \/ Tick

SpecCache == InitCache /\ [][NextCache]_vars

(***************************************************************************)
(* selectBestQuality on its own: the candidate lists a fan-out can hand    *)
(* over (at most one candidate from each adapter, any quality tier, in any *)
(* order) and every preferredQuality.  videoUrl tells the candidates of    *)
(* one list apart: it is the candidate's position in the list given.  The  *)
(* function sorts its argument in place, so a repeated invocation works on *)
(* the array as the previous one left it.                                  *)
(***************************************************************************)
\* the adapters the lists draw on: the first two and the last of
\* sourceOrder, and the two that sourceOrder does not name
ArbiterSources == {"snaptik", "tikwm", "webscraping", "ssstik", "dlpanda"}

CandidateList(src, q) ==
    [i \in 1..Len(src) |-> [videoUrl |-> i, author |-> "author", desc |-> "desc",
                            quality |-> q[i], source |-> src[i]]]

InitSelect ==
    /\ options \in [cacheResults : {TRUE}, preferredQuality : Qualities,
                   maxRetries : {DefaultMaxRetries},
                   parallelDownloads : {DefaultParallelDownloads}]
    /\ concurrency = 0
    /\ shape = [u \in Urls |-> "video"]
    /\ now = 0
    /\ cache = [k \in CacheKeys |-> NoEntry]
    /\ stats = InitStats
    /\ calls = [c \in Slots |-> IdleCall]
    /\ started = 0
    /\ snapshot = NoSnapshot
    /\ lastPut = [k \in CacheKeys |-> NeverPut]
    /\ \E n \in 1..MaxLen :
         \E src \in [1..n -> ArbiterSources], q \in [1..n -> Qualities] :
            /\ \A i, j \in 1..n : i # j => src[i] # src[j]
            /\ input = CandidateList(src, q)
    /\ results = input
    /\ winners = <<>>
    /\ fetch = IdleFetch
    /\ unit = IdleUnit

selectBest ==
    /\ Len(winners) < MaxSelects
    /\ LET r == selectBestQuality(results, options.preferredQuality)
       IN  /\ results' = r.array
           /\ winners' = Append(winners, r.selected)
    /\ UNCHANGED <<options, engineVars, input, fetch, unit>>

NextSelect == selectBest

SpecSelect == InitSelect /\ [][NextSelect]_vars

(***************************************************************************)
(* fetchWithRetry on its own: one call, every options.maxRetries the       *)
(* constructor can be given up to MaxRetries, and every way the axios      *)
(* requests of the call can end.                                           *)
(***************************************************************************)
\* what an axios request can be rejected with
ErrorKinds == {"ECONNRESET", "ETIMEDOUT", "HTTP500"}

\* the error object of a rejected request; lastError = null before the loop
NoError == [kind |-> "null", attempt |-> 0]

\* maxRetries: options.maxRetries || 3
maxRetriesOption(given) == IF given = 0 THEN DefaultMaxRetries ELSE given

\* the delay that forgets the exponent
backoffDelay_constant(i) == 1000

\* const delay = Math.pow(2, i) * 1000
backoffDelay(i) == (2 ^ i) * 1000

InitFetch ==
    /\ \E given \in 0..MaxRetries :
          options = [cacheResults |-> TRUE, preferredQuality |-> "high",
                     maxRetries |-> maxRetriesOption(given),
                     parallelDownloads |-> DefaultParallelDownloads]
    /\ concurrency = 0
    /\ shape = [u \in Urls |-> "video"]
    /\ now = 0
    /\ cache = [k \in CacheKeys |-> NoEntry]
    /\ stats = InitStats
    /\ calls = [c \in Slots |-> IdleCall]
    /\ started = 0
    /\ snapshot = NoSnapshot
    /\ lastPut = [k \in CacheKeys |-> NeverPut]
    /\ input = <<>>
    /\ results = <<>>
    /\ winners = <<>>
    /\ fetch = IdleFetch
    /\ unit = IdleUnit

\* const retries = this.options.maxRetries; the loop up to the first request
fetchStarted(f, maxRetries) ==
    [f EXCEPT !.pc = IF 0 < maxRetries THEN "request" ELSE "thrown",
              !.retries = maxRetries,
              !.i = 0,
              !.lastError = NoError,
              !.attempts = IF 0 < maxRetries THEN 1 ELSE 0]

\* return response
fetchResolved(f) == [f EXCEPT !.pc = "returned"]

\* the catch block, then either the await of the timer or i++, the loop
\* test and throw lastError
fetchRejected(f, kind) ==
    LET error == [kind |-> kind, attempt |-> f.attempts]
        caught == [f EXCEPT !.lastError = error,
                            !.failures = Append(@, error)]
    IN  IF f.i < f.retries - 1
        THEN [caught EXCEPT !.pc = "sleep",
                            !.sleeps = Append(@, backoffDelay(f.i))]
        ELSE [caught EXCEPT !.pc = "thrown",
                            !.i = @ + 1,
                            !.thrown = error]

\* i++, the loop test, the await of the next request
fetchWoken(f) == [f EXCEPT !.pc = "request", !.i = @ + 1, !.attempts = @ + 1]

\* the call up to the await of the first request
fetchWithRetry ==
    /\ fetch.pc = "idle"
    /\ fetch' = fetchStarted(fetch, options.maxRetries)
    /\ UNCHANGED <<options, engineVars, arbiterVars, unit>>

\* the request resolves
requestResolves ==
    /\ fetch.pc = "request"
    /\ fetch' = fetchResolved(fetch)
    /\ UNCHANGED <<options, engineVars, arbiterVars, unit>>

\* the request rejects
requestRejects(kind) ==
    /\ fetch.pc = "request"
    /\ fetch' = fetchRejected(fetch, kind)
    /\ UNCHANGED <<options, engineVars, arbiterVars, unit>>

\* the timer of the backoff fires
sleepEnds ==
    /\ fetch.pc = "sleep"
    /\ fetch' = fetchWoken(fetch)
    /\ UNCHANGED <<options, engineVars, arbiterVars, unit>>

NextFetch ==
    \/ fetchWithRetry
    \/ requestResolves
    \/ \E kind \in ErrorKinds : requestRejects(kind)
    \/ sleepEnds

SpecFetch == InitFetch /\ [][NextFetch]_vars

(***************************************************************************)
(* One unit of the fan-out with its adapter's fetchWithRetry call and the  *)
(* timer of its Promise.race, on the clock of the event loop: a timer      *)
(* fires when it is due, timers that are due fire in the order of their    *)
(* due times, and of two timers due at the same time the one set first     *)
(* fires first.  The unit sets the timer of its race in the run of code    *)
(* that issues the first request, before the request has its own timeout.  *)
(***************************************************************************)
\* timeout: options.timeout || 10000 (ms), with the default options
DefaultTimeout == 10000

\* the provider of the unit
UnitName == apiMethods[1]

\* how long a request can take until it is answered or fails, in ms; a
\* request that is not answered fails after options.timeout
ResponseTimes == {100, 6000}

\* a race without a timer
raceDeadline_never == 100 * DefaultTimeout

\* when the timer of Promise.race is due: setTimeout(..., this.options.timeout)
raceDeadline == DefaultTimeout

\* a promise that takes the latest settlement offered
raceSettled_lastWins(u, outcome, t) ==
    [u EXCEPT !.pc = "settled", !.outcome = outcome, !.settledAt = t]

\* the promise of Promise.race takes the first settlement offered and
\* ignores the later ones
raceSettled(u, outcome, t) ==
    IF u.pc = "racing"
    THEN [u EXCEPT !.pc = "settled", !.outcome = outcome, !.settledAt = t]
    ELSE u

\* the unit's code after the await of Promise.race, run when the race has
\* just been settled (from u to v)
unitCounted(st, u, v) ==
    IF v.outcome = u.outcome /\ v.settledAt = u.settledAt THEN st
    ELSE CASE v.outcome = "fulfilled" -> [st EXCEPT !.apiUsage[UnitName].successes = @ + 1]
           [] v.outcome = "timeout" -> [st EXCEPT !.apiUsage[UnitName].failures = @ + 1]
           [] OTHER -> st

\* the adapter function returns ret at time t
adapterReturned(u, ret, t) ==
    raceSettled([u EXCEPT !.adapter = ret, !.clock = t],
                IF ret = "candidate" THEN "fulfilled" ELSE "null", t)

\* an event of the adapter at time t can be the next event
DueNext(t) ==
    /\ t >= unit.clock
    /\ unit.timer = "fired" \/ t < raceDeadline

InitUnit ==
    /\ \E given \in 0..MaxRetries :
          options = [cacheResults |-> TRUE, preferredQuality |-> "high",
                     maxRetries |-> maxRetriesOption(given),
                     parallelDownloads |-> DefaultParallelDownloads]
    /\ concurrency = 0
    /\ shape = [u \in Urls |-> "video"]
    /\ now = 0
    /\ cache = [k \in CacheKeys |-> NoEntry]
    /\ stats = InitStats
    /\ calls = [c \in Slots |-> IdleCall]
    /\ started = 0
    /\ snapshot = NoSnapshot
    /\ lastPut = [k \in CacheKeys |-> NeverPut]
    /\ input = <<>>
    /\ results = <<>>
    /\ winners = <<>>
    /\ fetch = IdleFetch
    /\ unit = IdleUnit

unitFrame == <<options, concurrency, shape, now, cache, calls, started, snapshot, lastPut,
               arbiterVars>>

\* calls++, fn() up to the await of the first request, setTimeout
launchUnit ==
    /\ unit.pc = "idle"
    /\ stats' = [stats EXCEPT !.apiUsage[UnitName].calls = @ + 1]
    /\ fetch' = fetchStarted(fetch, options.maxRetries)
    /\ unit' = [unit EXCEPT !.pc = "racing", !.timer = "set"]
    /\ UNCHANGED unitFrame

\* the pending request is answered after d ms, with a response that has a
\* video (usable) or has none
unitRequestResolves(d, usable) ==
    /\ fetch.pc = "request"
    /\ DueNext(unit.since + d)
    /\ fetch' = fetchResolved(fetch)
    /\ unit' = adapterReturned(unit, IF usable THEN "candidate" ELSE "undefined",
                               unit.since + d)
    /\ stats' = unitCounted(stats, unit, unit')
    /\ UNCHANGED unitFrame

\* the pending request fails after d ms; after options.timeout it fails
\* with the timeout of the transport
unitRequestRejects(kind, d) ==
    /\ fetch.pc = "request"
    /\ (kind = "ETIMEDOUT") = (d = DefaultTimeout)
    /\ DueNext(unit.since + d)
    /\ fetch' = fetchRejected(fetch, kind)
    /\ unit' = IF fetch'.pc = "thrown"
               THEN adapterReturned(unit, "null", unit.since + d)
               ELSE [unit EXCEPT !.clock = unit.since + d, !.since = unit.since + d]
    /\ stats' = unitCounted(stats, unit, unit')
    /\ UNCHANGED unitFrame

\* the timer of the backoff fires
unitSleepEnds ==
    /\ fetch.pc = "sleep"
    /\ LET t == unit.since + fetch.sleeps[Len(fetch.sleeps)]
       IN  /\ DueNext(t)
           /\ unit' = [unit EXCEPT !.clock = t, !.since = t]
    /\ fetch' = fetchWoken(fetch)
    /\ UNCHANGED <<stats, unitFrame>>

\* the timer of the race fires: reject(new Error('Timeout'))
raceTimerFires ==
    /\ unit.timer = "set"
    /\ fetch.pc = "sleep" => unit.since + fetch.sleeps[Len(fetch.sleeps)] >= raceDeadline
    /\ unit' = LET u == [unit EXCEPT !.timer = "fired", !.clock = raceDeadline]
                   v == raceSettled(u, "timeout", raceDeadline)
               IN  IF v.outcome = "timeout" /\ unit.outcome # "timeout"
                   THEN [v EXCEPT !.errors = Append(@, <<UnitName, "Timeout">>)]
                   ELSE v
    /\ stats' = unitCounted(stats, unit, unit')
    /\ UNCHANGED <<fetch, unitFrame>>

NextUnit ==
    \/ launchUnit
    \/ \E d \in ResponseTimes, usable \in BOOLEAN : unitRequestResolves(d, usable)
    \/ \E kind \in ErrorKinds, d \in ResponseTimes \cup {DefaultTimeout} :
          unitRequestRejects(kind, d)
    \/ unitSleepEnds
    \/ raceTimerFires

\* the event loop runs the next event when there is one
SpecUnit == InitUnit /\ [][NextUnit]_vars /\ WF_vars(NextUnit)

(***************************************************************************)
(* Properties of the engine (specification Spec).                          *)
(***************************************************************************)
\* C1: with caching enabled, a downloadVideo for a reference whose latest
\* stored result was returned by a successful earlier call less than
\* maxCacheAge ago returns a result equal to it field for field and invokes
\* no adapter.
C1_FreshEntryServedEqual ==
    \A c \in Slots :
        (calls[c].pc = "done" /\ calls[c].earlier # NoMedia)
            => /\ calls[c].thrown = ""
               /\ calls[c].result = calls[c].earlier
               /\ calls[c].invoked = {}

\* C2: a downloadVideo that starts maxCacheAge or more after the latest Put
\* for its reference is a cache miss and runs the fan-out again, swept or
\* not; a call served from the cache started less than maxCacheAge after
\* the Put.
C2_ExpiredEntryNeverHit ==
    \A c \in Slots :
        /\ (calls[c].pc # "idle" /\ calls[c].ageAtStart >= MaxCacheAge)
              => /\ ~calls[c].hit
                 /\ calls[c].pc # "getId"
                       => \A n \in MethodNames : calls[c].units[n] # "none"
        /\ calls[c].hit => (0 <= calls[c].ageAtStart /\ calls[c].ageAtStart < MaxCacheAge)

\* a call that started exactly maxCacheAge after the Put, with the cache
\* enabled, has missed and has run its fan-out to the end
C2_Witness ==
    \E c \in Slots :
        /\ calls[c].pc = "done"
        /\ options.cacheResults
        /\ calls[c].ageAtStart = MaxCacheAge
        /\ ~calls[c].hit
        /\ \A n \in MethodNames : calls[c].units[n] \notin {"none", "pending"}

\* C3: when, of the N providers of the fan-out list, M < N let their unit
\* time out and the other N-M deliver a candidate, exactly those N-M
\* candidates are collected, the call counters have grown by N in total and
\* the success counters by N-M in total.
C3_FanoutCollectsAllButTimedOut ==
    \A c \in Slots :
        LET delivering == {n \in MethodNames : calls[c].scenario[n] = "candidate"}
        IN  (/\ calls[c].pc = "awaitMeta"
             /\ ~calls[c].hit
             /\ \A n \in MethodNames : calls[c].scenario[n] \in {"candidate", "hang"}
             /\ delivering # {})
            => /\ {n \in MethodNames : calls[c].units[n] = "fulfilled"} = delivering
               /\ Total(stats, "calls") - calls[c].before.calls = Len(apiMethods)
               /\ Total(stats, "successes") - calls[c].before.successes
                     = Cardinality(delivering)

\* C4: on a cache miss every adapter of the fan-out list, webscraping
\* included, is invoked and has a call counter under its own name, which
\* has been incremented.
C4_EveryAdapterInvokedAndCounted ==
    \A c \in Slots :
        (calls[c].pc = "fanout")
            => \A n \in MethodNames :
                  /\ n \in calls[c].invoked
                  /\ n \in ApiNames
                  /\ stats.hasApiUsage
                  /\ stats.apiUsage[n].calls >= 1

\* C5: whenever no downloadVideo is in flight, calls = successes + failures
\* for every provider.
C5_CallsAreSuccessesPlusFailures ==
    ((\A c \in Slots : ~InFlight(c)) /\ stats.hasApiUsage)
        => \A n \in ApiNames :
              stats.apiUsage[n].calls
                 = stats.apiUsage[n].successes + stats.apiUsage[n].failures

(***************************************************************************)
(* Properties of selectBestQuality (specification SpecSelect).             *)
(***************************************************************************)
InSourceOrder(source) == \E i \in 1..Len(sourceOrder) : sourceOrder[i] = source

\* position of a listed provider in the preference order
PreferenceRank(source) == CHOOSE i \in 1..Len(sourceOrder) : sourceOrder[i] = source

Tier(candidate) == qualityMap[candidate.quality]

IsTopTier(candidate) == \A j \in 1..Len(input) : Tier(input[j]) <= Tier(candidate)

\* C6: in the sorted array, among candidates of equal quality tier, every
\* candidate of a provider in the preference list stands before every
\* candidate of a provider that is not in it.
C6_UnlistedSortAfterListed ==
    Len(winners) >= 1
        => \A i, j \in 1..Len(results) :
              (/\ results[i].quality = results[j].quality
               /\ InSourceOrder(results[i].source)
               /\ ~InSourceOrder(results[j].source))
                 => i < j

\* C7: with preferredQuality = high, when the candidates of the best tier
\* present all come from providers of the preference list, the winner is
\* the one of them whose provider is earliest in that list.
C7_EarliestListedProviderWins ==
    (/\ Len(winners) >= 1
     /\ options.preferredQuality = "high"
     /\ \A i \in 1..Len(input) : IsTopTier(input[i]) => InSourceOrder(input[i].source))
        => /\ \E i \in 1..Len(input) : input[i] = winners[1]
           /\ IsTopTier(winners[1])
           /\ \A i \in 1..Len(input) :
                 IsTopTier(input[i])
                    => PreferenceRank(winners[1].source) <= PreferenceRank(input[i].source)

\* the fixture: {high, webscraping}, {high, snaptik} gives the snaptik candidate
C7_Witness ==
    /\ Len(winners) >= 1
    /\ options.preferredQuality = "high"
    /\ Len(input) = 2
    /\ input[1].quality = "high" /\ input[1].source = "webscraping"
    /\ input[2].quality = "high" /\ input[2].source = "snaptik"
    /\ winners[1] = input[2]

\* C8: with preferredQuality other than high, the winner is the first
\* candidate of the sorted array whose tier is the preferred one; when no
\* candidate has that tier, it is the winner preferredQuality = high gives.
C8_SoftPreference ==
    (Len(winners) >= 1 /\ options.preferredQuality # "high")
        => LET matching == {i \in 1..Len(results) :
                               results[i].quality = options.preferredQuality}
           IN  /\ \E i \in 1..Len(input) : input[i] = winners[1]
               /\ matching # {}
                     => /\ winners[1].quality = options.preferredQuality
                        /\ \E i \in matching :
                              /\ results[i] = winners[1]
                              /\ \A j \in matching : i <= j
               /\ matching = {}
                     => winners[1] = selectBestQuality(input, "high").selected

\* low is preferred, no candidate is low, several tiers are present: the
\* winner is the best one
C8_Witness ==
    /\ Len(winners) >= 1
    /\ options.preferredQuality = "low"
    /\ Len(input) >= 2
    /\ \A i \in 1..Len(input) : input[i].quality # "low"
    /\ \E i \in 1..Len(input) : input[i].quality = "medium"
    /\ winners[1].quality = "high"

\* C9: with preferredQuality = high the function returns one candidate of
\* its input, of the best tier present in the input, and keeps the others
\* as they are.
C9_HighReturnsTopTier ==
    (Len(winners) >= 1 /\ options.preferredQuality = "high")
        => /\ \E i \in 1..Len(input) : input[i] = winners[1]
           /\ IsTopTier(winners[1])
           /\ Len(results) = Len(input)
           /\ \A i \in 1..Len(input) : \E j \in 1..Len(results) : results[j] = input[i]

\* the best candidate is not the first of the input
C9_Witness ==
    /\ Len(winners) >= 1
    /\ options.preferredQuality = "high"
    /\ Len(input) >= 3
    /\ input[1].quality = "low"
    /\ input[2].quality = "medium"
    /\ winners[1].quality = "high"

C11_RetryBudgetAndBackoff ==
    fetch.pc = "thrown" =>
        /\ fetch.retries >= 1
        /\ fetch.attempts = fetch.retries
        /\ Len(fetch.failures) = fetch.retries
        /\ Len(fetch.sleeps) = fetch.retries - 1
        /\ \A i \in 0..(fetch.retries - 2) : fetch.sleeps[i + 1] = (2 ^ i) * 1000
        /\ fetch.thrown = fetch.failures[fetch.retries]
        /\ fetch.thrown.attempt = fetch.retries

\* three requests failed, one second and two seconds slept, the third
\* request's error thrown
C11_Witness ==
    /\ fetch.pc = "thrown"
    /\ fetch.retries = 3
    /\ fetch.sleeps = <<1000, 2000>>
    /\ fetch.thrown.attempt = 3
    /\ fetch.failures[1].kind # fetch.thrown.kind

(***************************************************************************)
(* Failures of a resolution (specification Spec).                          *)
(***************************************************************************)
\* the providers the errors array of a getVideoMetadata call names
ReasonsGiven(call) == {call.errors[i][1] : i \in 1..Len(call.errors)}

\* C12: when getVideoMetadata throws 'All methods failed', the errors it
\* carries name every provider of the list whose unit ended without a
\* candidate (adapter error, timeout or absence).
C12_AllFailedCarriesEveryReason ==
    \A c \in Slots :
        calls[c].metaThrown = "AllMethodsFailed" =>
            \A n \in MethodNames :
                calls[c].units[n] \in {"null", "timeout", "rejected"}
                    => n \in ReasonsGiven(calls[c])

\* C13: a downloadVideo call that rejects does so with AllProvidersFailed
\* ('All methods failed') or with InvalidReference, whatever calls of
\* downloadVideo and resetStats came before.
C13_OnlyTwoFailureKinds ==
    \A c \in Slots :
        (calls[c].pc = "done" /\ calls[c].thrown # "")
            => calls[c].thrown \in {"AllMethodsFailed", "InvalidReference"}

\* C14 (specification SpecRef): a downloadVideo call for a reference that
\* getVideoId cannot identify (no pattern matches and the redirect gives
\* no identifiable URL either) rejects with InvalidReference.
C14_UnidentifiedReferenceRejected ==
    \A c \in Slots :
        (calls[c].pc = "done" /\ calls[c].videoId = "null")
            => calls[c].thrown = "InvalidReference"

(***************************************************************************)
(* The fan-out barrier (specification Spec).                               *)
(***************************************************************************)
\* C15: on a cache miss getVideoMetadata has neither a winner nor a
\* failure while a unit of its fan-out is pending; the winner is one of the
\* candidates the units delivered and no delivered candidate, however late
\* it was, sorts in front of it.
C15_NoArbitrationBeforeAllSettled ==
    \A c \in Slots :
        (calls[c].pc \in {"awaitMeta", "done"} /\ ~calls[c].hit)
            => /\ \A n \in MethodNames : calls[c].units[n] \notin {"none", "pending"}
               /\ calls[c].metaThrown = ""
                    => /\ \E n \in MethodNames :
                             /\ calls[c].units[n] = "fulfilled"
                             /\ calls[c].values[n] = calls[c].metadata
                       /\ \A n \in MethodNames :
                             calls[c].units[n] = "fulfilled"
                                => compareFn(calls[c].metadata, calls[c].values[n]) <= 0

\* the first unit to settle delivered a candidate and a unit that settled
\* after it delivered the winner
C15_Witness ==
    \E c \in Slots :
        /\ calls[c].pc = "awaitMeta"
        /\ ~calls[c].hit
        /\ calls[c].units[apiMethods[1]] = "fulfilled"
        /\ calls[c].metadata # NoResult
        /\ calls[c].metadata.source # apiMethods[1]

(***************************************************************************)
(* Snapshots of the statistics (specification SpecStats).                  *)
(***************************************************************************)
\* C16: a getStats or getDetailedStats call made right after resetStats
\* returns, and what it returns has zero for totalDownloads,
\* successfulDownloads, failedDownloads and cacheSaves, zero calls,
\* successes and failures for every provider, and an empty error log.
C16_SnapshotAfterResetAllZero ==
    (snapshot.op # "none" /\ stats = ResetStatsObject)
        => /\ ~snapshot.threw
           /\ snapshot.stats.totalDownloads = 0
           /\ snapshot.stats.successfulDownloads = 0
           /\ snapshot.stats.failedDownloads = 0
           /\ snapshot.stats.cacheSaves = 0
           /\ snapshot.stats.hasApiUsage
           /\ \A n \in ApiNames :
                 /\ snapshot.stats.apiUsage[n].calls = 0
                 /\ snapshot.stats.apiUsage[n].successes = 0
                 /\ snapshot.stats.apiUsage[n].failures = 0
           /\ snapshot.stats.hasErrors
           /\ snapshot.stats.errors = <<>>

\* C17: a getStats or getDetailedStats call on the engine as constructed,
\* before any downloadVideo call, returns, with NaN as successRate and,
\* for getDetailedStats, NaN as cacheEfficiency.
C17_FreshSnapshotReportsNaN ==
    (snapshot.op # "none" /\ started = 0 /\ stats = InitStats)
        => /\ ~snapshot.threw
           /\ snapshot.stats = InitStats
           /\ snapshot.successRate = NotANumber
           /\ snapshot.op = "getDetailedStats" => snapshot.cacheEfficiency = NotANumber

\* getDetailedStats has returned on the engine as constructed
C17_Witness ==
    /\ snapshot.op = "getDetailedStats"
    /\ started = 0
    /\ stats = InitStats
    /\ ~snapshot.threw
    /\ snapshot.successRate = NotANumber
    /\ snapshot.cacheEfficiency = NotANumber

\* C18: when a downloadVideo call has ended and an adapter of its fan-out
\* ended in error or timeout, the lastErrors of a getDetailedStats call
\* made on statistics that were never reset hold an entry for that call's
\* reference, whether the call succeeded or not.
C18_AdapterFailureInErrorLog ==
    \A c \in Slots :
        (/\ snapshot.op = "getDetailedStats"
         /\ stats.hasErrors
         /\ calls[c].pc = "done"
         /\ \E n \in MethodNames : calls[c].scenario[n] \in {"error", "hang"})
            => /\ ~snapshot.threw
               /\ \E i \in 1..Len(snapshot.lastErrors) :
                     snapshot.lastErrors[i].url = calls[c].url

C20_DisabledCacheInert ==
    ~options.cacheResults =>
        /\ \A k \in CacheKeys : ~cache[k].present
        /\ stats.cacheSaves \in {0, Undefined}
        /\ stats.hasApiUsage => stats.cacheSaves = 0
        /\ \A c \in Slots :
              /\ ~calls[c].hit
              /\ calls[c].pc \in {"fanout", "awaitMeta", "done"}
                    => \A n \in MethodNames : calls[c].units[n] # "none"
              /\ calls[c].pc = "done" => calls[c].events[2] = "progress"

\* caching disabled: the second call for the same reference, made while
\* an entry of the first would still be fresh, has invoked the adapters
\* and succeeded as the first did
C20_Witness ==
    /\ ~options.cacheResults
    /\ now < MaxCacheAge
    /\ stats.successfulDownloads = 2
    /\ \E c \in Slots :
          /\ calls[c].ord = 2
          /\ calls[c].pc = "done"
          /\ calls[c].thrown = ""
          /\ calls[c].invoked # {}

C23_SuccessesAtMostCalls ==
    stats.hasApiUsage =>
        \A n \in ApiNames : stats.apiUsage[n].successes <= stats.apiUsage[n].calls

\* C24: the steps of a downloadVideo call that is served from the cache
\* leave the per-provider statistics as they are.
C24_CacheHitLeavesProviderStats ==
    [][\A c \in Slots :
          (calls'[c].hit /\ calls'[c] # calls[c])
                => /\ stats'.hasApiUsage = stats.hasApiUsage
                   /\ stats'.apiUsage = stats.apiUsage
      ]_vars

\* C25: every value in the cache has a video URL.
C25_CachedValuesHaveUrl ==
    \A k \in CacheKeys : cache[k].present => cache[k].data.videoUrl # 0

\* C26: on statistics that were never reset, a downloadVideo call that
\* missed the cache and in whose fan-out some unit delivered a candidate
\* with a video URL returns a result with a video URL.
C26_OneUsableCandidateSuffices ==
    \A c \in Slots :
        (/\ calls[c].pc = "done"
         /\ ~calls[c].hit
         /\ stats.hasApiUsage
         /\ \E n \in MethodNames :
               /\ calls[c].units[n] = "fulfilled"
               /\ calls[c].values[n].videoUrl # 0)
            => /\ calls[c].thrown = ""
               /\ calls[c].result # NoMedia
               /\ calls[c].result.url # 0

(***************************************************************************)
(* One fan-out unit against its timer (specification SpecUnit).            *)
(***************************************************************************)
\* C27: when the adapter's fetchWithRetry call has failed on its first
\* attempts and then, within its retry budget, got a usable response, the
\* unit has delivered the adapter's candidate.
C27_RetriedCandidateCollected ==
    (/\ fetch.pc = "returned"
     /\ Len(fetch.failures) >= 1
     /\ unit.adapter = "candidate")
        => unit.outcome = "fulfilled"

\* C28: a unit that has been launched settles, and it does so no later
\* than options.timeout after the launch, whatever maxRetries is and
\* however long the requests and the backoff delays take; a unit ended by
\* the timer has counted one failure and given the reason Timeout, a unit
\* whose adapter returned nothing has counted none.
C28_UnitSettlesWithinTimeout ==
    /\ (unit.pc = "racing") ~> (unit.pc = "settled")
    /\ [](/\ unit.pc = "racing" => unit.clock <= DefaultTimeout
          /\ unit.timer = "fired" => unit.pc = "settled"
          /\ unit.pc = "settled" =>
                /\ unit.settledAt <= DefaultTimeout
                /\ unit.outcome \in {"fulfilled", "null", "timeout"}
                /\ unit.outcome = "timeout" =>
                      /\ stats.apiUsage[UnitName].failures = 1
                      /\ unit.errors = << <<UnitName, "Timeout">> >>
                /\ unit.outcome # "timeout" =>
                      /\ stats.apiUsage[UnitName].failures = 0
                      /\ unit.errors = <<>>)

\* the adapter is still retrying (third request pending) when the timer
\* ends the unit
C28_Witness ==
    /\ unit.pc = "settled"
    /\ unit.outcome = "timeout"
    /\ unit.settledAt = DefaultTimeout
    /\ fetch.pc = "request"
    /\ fetch.attempts = 3

\* C29: once a unit has settled, nothing changes its outcome, the
\* counters or the cache: what its adapter returns afterwards is dropped.
C29_LateResultDiscarded ==
    [][unit.pc = "settled" =>
          /\ unit'.pc = "settled"
          /\ unit'.outcome = unit.outcome
          /\ unit'.settledAt = unit.settledAt
          /\ unit'.errors = unit.errors
          /\ stats' = stats
          /\ cache' = cache
      ]_vars

\* the unit timed out, its adapter has returned a candidate since, and
\* the provider still has no success
C29_Witness ==
    /\ unit.outcome = "timeout"
    /\ unit.adapter = "candidate"
    /\ unit.clock > DefaultTimeout
    /\ stats.apiUsage[UnitName].successes = 0
    /\ stats.apiUsage[UnitName].failures = 1

(***************************************************************************)
(* The engine after resetStats (specification Spec).                       *)
(***************************************************************************)
\* C30: a downloadVideo call that was started after the latest resetStats
\* (the statistics are the reset ones and totalDownloads has been counted
\* since, and the call is the latest one started) and has ended: served
\* from the cache it has returned the cached result and cacheSaves counts
\* it; on a miss it has invoked adapters, and it has returned a result if
\* its winner has a video URL.
C30_UsableAfterReset ==
    \A c \in Slots :
        (/\ calls[c].pc = "done"
         /\ calls[c].ord = started
         /\ ~stats.hasApiUsage
         /\ stats.totalDownloads >= 1)
            => /\ calls[c].hit =>
                    /\ calls[c].metadata.videoUrl # 0 => calls[c].thrown = ""
                    /\ stats.cacheSaves >= 1
               /\ ~calls[c].hit =>
                    /\ calls[c].invoked # {}
                    /\ (calls[c].metadata # NoResult /\ calls[c].metadata.videoUrl # 0)
                          => calls[c].thrown = ""

(***************************************************************************)
(* Order of the candidates (specification SpecSelect).                     *)
(***************************************************************************)
\* the rearrangements of 1..n
Rearrangements(n) == {p \in [1..n -> 1..n] : \A i, j \in 1..n : i # j => p[i] # p[j]}

\* C31: the winner selectBestQuality gives for a list is the winner it
\* gives for every rearrangement of that list.
C31_WinnerIndependentOfOrder ==
    Len(winners) >= 1 =>
        \A p \in Rearrangements(Len(input)) :
            selectBestQuality([i \in 1..Len(input) |-> input[p[i]]],
                              options.preferredQuality).selected = winners[1]

(***************************************************************************)
(* The width of the fan-out (specification SpecPar).                       *)
(***************************************************************************)
\* C33: a downloadVideo call never has more units of its fan-out pending
\* than options.parallelDownloads.
C33_FanoutWithinParallelDownloads ==
    \A c \in Slots :
        Cardinality({n \in MethodNames : calls[c].units[n] = "pending"})
            <= options.parallelDownloads

(***************************************************************************)
(* Counters under concurrent downloadVideo calls (specification SpecConc). *)
(***************************************************************************)
\* every call issued so far has its record in a slot and has returned or
\* thrown
AllCallsSettled ==
    /\ started >= 2
    /\ {calls[c].ord : c \in Slots} = 1..started
    /\ \A c \in Slots : calls[c].pc = "done"

\* the calls whose unit for provider name ended as kind
UnitsEnded(name, kind) == {c \in Slots : calls[c].units[name] = kind}

\* C32: once concurrent downloadVideo calls that all missed the cache have
\* settled, totalDownloads is the number of calls, and every provider of the
\* fan-out that has counters has calls equal to the number of calls,
\* successes equal to the number of its units that returned a candidate and
\* failures equal to the number of its units that ended in the catch block.
C32_CountersExactUnderConcurrency ==
    AllCallsSettled =>
        /\ stats.totalDownloads = started
        /\ \A n \in MethodNames \cap ApiNames :
              /\ stats.apiUsage[n].calls = started
              /\ stats.apiUsage[n].successes = Cardinality(UnitsEnded(n, "fulfilled"))
              /\ stats.apiUsage[n].failures = Cardinality(UnitsEnded(n, "timeout"))

(***************************************************************************)
(* The cache under concurrent downloadVideo calls and cleanCache           *)
(* (specification SpecCache).                                              *)
(***************************************************************************)
\* data is a whole candidate, as an adapter returned it to call number tag
CompleteCandidate(data, tag) ==
    \E n \in MethodNames, o \in {"candidate", "nourl"} :
        data = AdapterCandidate(n, o, tag)

\* C34: the entry of a reference is absent, or it is the whole winner of
\* the one call that made the latest Put together with the time of that
\* Put; and what a call finds in the cache is the whole winner of one
\* earlier call.
C34_EntryReplacedWhole ==
    /\ \A k \in CacheKeys :
          cache[k].present =>
              /\ lastPut[k].by >= 1
              /\ cache[k].timestamp = lastPut[k].at
              /\ CompleteCandidate(cache[k].data, lastPut[k].by)
              /\ \A c \in Slots :
                    (calls[c].ord = lastPut[k].by /\ ~calls[c].hit)
                        => cache[k].data = calls[c].metadata
    /\ \A c \in Slots :
          calls[c].hit =>
              \E t \in 1..(calls[c].ord - 1) : CompleteCandidate(calls[c].metadata, t)

\* two calls for one reference ran their fan-outs together and the Put of
\* the later one, made at a later time, replaced the entry of the earlier
C34_Witness ==
    \E c, d \in Slots, k \in CacheKeys :
        /\ c # d
        /\ calls[c].pc = "done" /\ calls[d].pc = "done"
        /\ calls[c].url = calls[d].url
        /\ generateCacheKey(calls[c].url) = k
        /\ ~calls[c].hit /\ ~calls[d].hit
        /\ calls[c].metadata # NoResult /\ calls[d].metadata # NoResult
        /\ calls[c].metadata.source # calls[d].metadata.source
        /\ cache[k].present
        /\ cache[k].data = calls[d].metadata
        /\ cache[k].timestamp >= 1

====
